---- MODULE Spec2Model ----
(***************************************************************************)
(* Revelia.life API (src/main.py, src/schemas.py): the request handlers,   *)
(* the entity schemas they construct, and the document store they write.   *)
(* Every handler is one atomic action: the framework validates the request *)
(* body, the handler body runs (enrichment, entity construction, at most   *)
(* one persistence call) and a response is produced.                       *)
(*                                                                         *)
(* A request body is a record holding exactly the fields the client sent:  *)
(* an omitted field is absent from DOMAIN, an explicit JSON null is NULL.  *)
(* Texts are sequences of one-character strings.                           *)
(***************************************************************************)
EXTENDS Integers, Sequences, FiniteSets, TLC

VARIABLES store, nextId, db, request, response, dbcalls

vars == <<store, nextId, db, request, response, dbcalls>>

\* ------------------------------------------------------------ bounds ----
MaxDocs == 2

\* ------------------------------------------------------------ values ----
NULL == "<null>"

Has(r, f) == f \in DOMAIN r

Get(r, f, default) == IF Has(r, f) THEN r[f] ELSE default

Opt(f, vals) == {<<>>} \cup {[k \in {f} |-> v] : v \in vals}

Req(f, vals) == {[k \in {f} |-> v] : v \in vals}

ValidEmails == {"a@x.com", "b@x.com"}

EmailStr(v) == v \in ValidEmails

OptionalEmailStr(v) == v = NULL \/ EmailStr(v)

\* ------------------------------------------------------- identifiers ----
ObjectId(n) == [type |-> "ObjectId", value |-> ToString(n)]

Str(v) == [type |-> "str", value |-> v.value]

NoneValue == [type |-> "NoneType", value |-> ""]

IsStr(v) == v.type = "str"

\* ------------------------------------------------------------- texts ----
\* A text is a sequence of characters, each a one-element token.  The
\* accented letters are written as ASCII tokens: "a'" is a-acute, "A'" its
\* capital, "e'" e-acute, "i'" i-acute, "n~" n-tilde.
UpperChars == <<"A", "E", "F", "H", "I", "L", "R", "S", "T", "W", "A'">>

LowerChars == <<"a", "e", "f", "h", "i", "l", "r", "s", "t", "w", "a'">>

\* str.lower() on one character
LowerChar(c) ==
    IF \E i \in 1..Len(UpperChars) : UpperChars[i] = c
    THEN LowerChars[CHOOSE i \in 1..Len(UpperChars) : UpperChars[i] = c]
    ELSE c

\* str.lower()
RECURSIVE Lower(_)
Lower(s) == IF s = <<>> THEN <<>> ELSE <<LowerChar(Head(s))>> \o Lower(Tail(s))

\* s.startswith(k) in place of k in s
Contains_Prefix(s, k) == Len(k) <= Len(s) /\ SubSeq(s, 1, Len(k)) = k

\* k in s, for strings: k starts at some position of s
Contains(s, k) == \E i \in 1..(Len(s) - Len(k) + 1) : SubSeq(s, i, i + Len(k) - 1) = k

\* any(k in text_lower for k in keys)
AnyIn(text_lower, keys) == \E j \in 1..Len(keys) : Contains(text_lower, keys[j])

AguaKeys == << <<"a","g","u","a">>, <<"w","a","t","e","r">>, <<"a'","g","u","a">> >>

CaidaKeys == << <<"c","a","e","r">>, <<"f","a","l","l">>, <<"c","a","i","r">> >>

VolarKeys == << <<"v","o","l","a","r">>, <<"f","l","y">>, <<"v","o","a","r">> >>

\* an if / elif chain in place of the three independent ifs
AnalyzeTags_Exclusive(text) ==
    LET text_lower == Lower(text)
    IN IF AnyIn(text_lower, AguaKeys) THEN <<"agua">>
       ELSE IF AnyIn(text_lower, CaidaKeys) THEN <<"caida">>
       ELSE IF AnyIn(text_lower, VolarKeys) THEN <<"volar">>
       ELSE <<>>

\* the three independent if-statements of analyze_dream
AnalyzeTags(text) ==
    LET text_lower == Lower(text)
        t1 == IF AnyIn(text_lower, AguaKeys) THEN <<"agua">> ELSE <<>>
        t2 == IF AnyIn(text_lower, CaidaKeys) THEN Append(t1, "caida") ELSE t1
        t3 == IF AnyIn(text_lower, VolarKeys) THEN Append(t2, "volar") ELSE t2
    IN t3

\* themes filled with a fresh empty list instead of the tags
DreamInsights_EmptyThemes(tags) ==
    [summary |-> [es |-> "Un analisis inicial basado en patrones comunes de suenos.",
                  en |-> "An initial analysis based on common dream patterns.",
                  pt |-> "Uma analise inicial baseada em padroes comuns de sonhos."],
     themes |-> <<>>,
     recommendations |-> [es |-> <<"Lleva un diario de suenos", "Practica higiene del sueno">>,
                          en |-> <<"Keep a dream journal", "Practice sleep hygiene">>,
                          pt |-> <<"Mantenha um diario de sonhos", "Pratique higiene do sono">>]]

DreamInsights(tags) ==
    [summary |-> [es |-> "Un analisis inicial basado en patrones comunes de suenos.",
                  en |-> "An initial analysis based on common dream patterns.",
                  pt |-> "Uma analise inicial baseada em padroes comuns de sonhos."],
     themes |-> tags,
     recommendations |-> [es |-> <<"Lleva un diario de suenos", "Practica higiene del sueno">>,
                          en |-> <<"Keep a dream journal", "Practice sleep hygiene">>,
                          pt |-> <<"Mantenha um diario de sonhos", "Pratique higiene do sono">>]]

AudioSentinel == <<"[","a","u","d","i","o"," ","i","n","p","u","t","]">>

AudioInsights ==
    [summary |-> [es |-> "Analisis a partir de audio (placeholder)",
                  en |-> "Analysis from audio (placeholder)",
                  pt |-> "Analise a partir de audio (placeholder)"],
     themes |-> <<"audio">>]

\* ----------------------------------------------------------- schemas ----
\* Each schema operator yields the constructed entity, or Invalid when
\* pydantic raises ValidationError.
Invalid == [invalid |-> TRUE]

IsValid(e) == ~Has(e, "invalid")

Lead(email, name, language, source) ==
    IF EmailStr(email)
    THEN [email |-> email, name |-> name, language |-> language, source |-> source]
    ELSE Invalid

Dream(user_email, text, language, analysis, audio_filename, tags) ==
    IF OptionalEmailStr(user_email) /\ language # NULL
    THEN [user_email |-> user_email, text |-> text, language |-> language,
          analysis |-> analysis, audio_filename |-> audio_filename, tags |-> tags]
    ELSE Invalid

QuizAnswer(user_email, answers, score) ==
    IF EmailStr(user_email)
    THEN [user_email |-> user_email, answers |-> answers, score |-> score]
    ELSE Invalid

Report(user_email, dream_id, subject, content, language, delivered) ==
    IF EmailStr(user_email) /\ subject # NULL /\ content # NULL /\ language # NULL
    THEN [user_email |-> user_email, dream_id |-> dream_id, subject |-> subject,
          content |-> content, language |-> language, delivered |-> delivered]
    ELSE Invalid

\* ------------------------------------------------------- persistence ----
Collections == {"lead", "dream", "quizanswer", "report"}

TotalDocs == Len(store["lead"]) + Len(store["dream"]) + Len(store["quizanswer"]) + Len(store["report"])

WithId(entity, oid) == entity @@ [k \in {"_id"} |-> oid]

\* create(kind, entity) -> identifier: the store after the insert
Inserted(kind, entity) ==
    [store EXCEPT ![kind] = Append(@, WithId(entity, ObjectId(nextId)))]

\* the identifier create returns
CreatedId == Str(ObjectId(nextId))

\* query(kind, filter): every document of the collection equal to the filter
\* on the filtered field, in insertion order
RECURSIVE SelectEq(_, _, _)
SelectEq(docs, field, value) ==
    IF docs = <<>> THEN <<>>
    ELSE IF Head(docs)[field] = value
         THEN <<Head(docs)>> \o SelectEq(Tail(docs), field, value)
         ELSE SelectEq(Tail(docs), field, value)

get_documents(kind, field, value) == SelectEq(store[kind], field, value)

\* db.list_collection_names(): the collections that hold documents
RECURSIVE NamesOf(_)
NamesOf(S) ==
    IF S = {} THEN <<>>
    ELSE LET c == CHOOSE x \in S : TRUE IN <<c>> \o NamesOf(S \ {c})

list_collection_names == NamesOf({c \in Collections : store[c] # <<>>})

\* --------------------------------------------------------- responses ----
ClientError(handler) == [handler |-> handler, status |-> 422, body |-> [detail |-> "validation error"]]

ServerError(handler) == [handler |-> handler, status |-> 500, body |-> [detail |-> "Internal Server Error"]]

Ok(handler, body) == [handler |-> handler, status |-> 200, body |-> body]

CreateCall(kind) == [op |-> "create_document", kind |-> kind]

QueryCall(kind) == [op |-> "get_documents", kind |-> kind]

\* the document inserted by two persistence calls
Persist_Twice(handler, kind, entity, written, body) ==
    IF ~IsValid(entity) \/ db = "None" \/ ~written
    THEN /\ response' = ServerError(handler)
         /\ dbcalls' = <<>>
         /\ UNCHANGED <<store, nextId>>
    ELSE /\ store' = [store EXCEPT ![kind] = Append(Append(@, WithId(entity, ObjectId(nextId))),
                                                     WithId(entity, ObjectId(nextId + 1)))]
         /\ nextId' = nextId + 2
         /\ response' = Ok(handler, body)
         /\ dbcalls' = <<CreateCall(kind), CreateCall(kind)>>

\* The tail every submit handler shares: the entity could not be built
\* (unhandled ValidationError), the persistence call failed, or the document
\* was inserted and the success body is returned.
Persist(handler, kind, entity, written, body) ==
    IF ~IsValid(entity)
    THEN /\ response' = ServerError(handler)
         /\ dbcalls' = <<>>
         /\ UNCHANGED <<store, nextId>>
    ELSE IF db = "None" \/ ~written
    THEN /\ response' = ServerError(handler)
         /\ dbcalls' = <<CreateCall(kind)>>
         /\ UNCHANGED <<store, nextId>>
    ELSE /\ store' = Inserted(kind, entity)
         /\ nextId' = nextId + 1
         /\ response' = Ok(handler, body)
         /\ dbcalls' = <<CreateCall(kind)>>

Reject(handler) ==
    /\ response' = ClientError(handler)
    /\ dbcalls' = <<>>
    /\ UNCHANGED <<store, nextId>>

\* ---------------------------------------------------------- handlers ----
\* POST /api/dream/analyze
DreamIn(req) ==
    /\ Has(req, "text")
    /\ OptionalEmailStr(Get(req, "user_email", NULL))

\* the Dream built from the request and its enrichment
DreamDoc(req, tags, insights) ==
    Dream(Get(req, "user_email", NULL), req.text, Get(req, "language", "es"), insights, NULL, tags)

analyze_dream(req, written) ==
    /\ request' = [handler |-> "analyze_dream", body |-> req]
    /\ UNCHANGED db
    /\ IF ~DreamIn(req) THEN Reject("analyze_dream")
       ELSE \E tags \in {AnalyzeTags(req.text)} :
            LET insights == DreamInsights(tags)
                dream_doc == DreamDoc(req, tags, insights)
            IN Persist("analyze_dream", "dream", dream_doc, written,
                       [ok |-> TRUE, id |-> CreatedId, analysis |-> insights])

\* POST /api/dream/audio
AudioForm(req) ==
    /\ Has(req, "file")
    /\ OptionalEmailStr(Get(req, "user_email", NULL))

\* tags left to the schema default
AudioDoc_DefaultTags(req, insights) ==
    Dream(Get(req, "user_email", NULL), AudioSentinel, Get(req, "language", "es"),
          insights, req.file.filename, <<>>)

\* the Dream built from the upload form: the file's name and nothing else of it
AudioDoc(req, insights) ==
    LET filename == req.file.filename
    IN Dream(Get(req, "user_email", NULL), AudioSentinel, Get(req, "language", "es"),
             insights, filename, <<"audio">>)

analyze_dream_audio(req, written) ==
    /\ request' = [handler |-> "analyze_dream_audio", body |-> req]
    /\ UNCHANGED db
    /\ IF ~AudioForm(req) THEN Reject("analyze_dream_audio")
       ELSE LET insights == AudioInsights
                dream_doc == AudioDoc(req, insights)
            IN Persist("analyze_dream_audio", "dream", dream_doc, written,
                       [ok |-> TRUE, id |-> CreatedId, analysis |-> insights])

\* GET /api/dream/history
\* the stored identifier passed through unconverted
StringifyId_Raw(d) == d

StringifyId(d) == [d EXCEPT !["_id"] = IF Has(d, "_id") THEN Str(d["_id"]) ELSE NoneValue]

dream_history(req) ==
    /\ request' = [handler |-> "dream_history", body |-> req]
    /\ UNCHANGED <<store, nextId, db>>
    /\ IF ~(Has(req, "email") /\ EmailStr(req.email))
       THEN /\ response' = ClientError("dream_history")
            /\ dbcalls' = <<>>
       ELSE IF db = "None"
       THEN /\ response' = ServerError("dream_history")
            /\ dbcalls' = <<QueryCall("dream")>>
       ELSE LET docs == get_documents("dream", "user_email", req.email)
                items == [i \in 1..Len(docs) |-> StringifyId(docs[i])]
            IN /\ response' = Ok("dream_history", [ok |-> TRUE, items |-> items])
               /\ dbcalls' = <<QueryCall("dream")>>

\* POST /api/lead
LeadIn(req) == Has(req, "email") /\ EmailStr(req.email)

\* omitted fields stored as null instead of the defaults of LeadIn
LeadDoc_NoDefaults(req) ==
    Lead(req.email, Get(req, "name", NULL), Get(req, "language", NULL), Get(req, "source", NULL))

\* the Lead built from the request, with the defaults of LeadIn
LeadDoc(req) ==
    Lead(req.email, Get(req, "name", NULL), Get(req, "language", "es"), Get(req, "source", "landing"))

capture_lead(req, written) ==
    /\ request' = [handler |-> "capture_lead", body |-> req]
    /\ UNCHANGED db
    /\ IF ~LeadIn(req) THEN Reject("capture_lead")
       ELSE LET lead_doc == LeadDoc(req)
            IN Persist("capture_lead", "lead", lead_doc, written,
                       [ok |-> TRUE, id |-> CreatedId])

\* POST /api/quiz/submit: the request body is parsed as the QuizAnswer entity
\* itself.  A JSON integer is written by its numeral.
IntLiterals == {"7"}

QuizAnswerIn(req) ==
    /\ Has(req, "user_email") /\ EmailStr(req.user_email)
    /\ Has(req, "answers") /\ \A k \in DOMAIN req.answers : req.answers[k] # NULL
    /\ Get(req, "score", NULL) \in IntLiterals \cup {NULL}

submit_quiz(req, written) ==
    /\ request' = [handler |-> "submit_quiz", body |-> req]
    /\ UNCHANGED db
    /\ IF ~QuizAnswerIn(req) THEN Reject("submit_quiz")
       ELSE LET payload == QuizAnswer(req.user_email, req.answers, Get(req, "score", NULL))
            IN Persist("submit_quiz", "quizanswer", payload, written,
                       [ok |-> TRUE, id |-> CreatedId])

\* POST /api/report/send
ReportIn(req) == Has(req, "user_email") /\ EmailStr(req.user_email)

\* x or default, for an optional string
OrElse(x, default) == IF x = NULL \/ x = "" THEN default ELSE x

\* dict.get(key, default)
DictGet(d, key, default) == IF key \in DOMAIN d THEN d[key] ELSE default

SubjectTable ==
    [es |-> "Informe detallado de tu sueno",
     en |-> "Detailed dream report",
     pt |-> "Relatorio detalhado do seu sonho"]

ContentTable ==
    [es |-> "Gracias por confiar en Revelia.life. Adjuntamos un analisis mas profundo de tu sueno.",
     en |-> "Thanks for trusting Revelia.life. We attach a deeper analysis of your dream.",
     pt |-> "Obrigado por confiar na Revelia.life. Anexamos uma analise mais profunda do seu sonho."]

LocalizedSubject(language) == DictGet(SubjectTable, OrElse(language, "es"), "Informe")

LocalizedContent(language) == DictGet(ContentTable, OrElse(language, "es"), NULL)

\* the Report built from the request and the canned texts
ReportDoc(req) ==
    LET language == Get(req, "language", "es")
    IN Report(req.user_email, Get(req, "dream_id", NULL), LocalizedSubject(language),
              LocalizedContent(language), OrElse(language, "es"), FALSE)

send_report(req, written) ==
    /\ request' = [handler |-> "send_report", body |-> req]
    /\ UNCHANGED db
    /\ IF ~ReportIn(req) THEN Reject("send_report")
       ELSE LET report_doc == ReportDoc(req)
            IN Persist("send_report", "report", report_doc, written,
                       [ok |-> TRUE, id |-> CreatedId, queued |-> TRUE])

\* GET /, GET /robots.txt, GET /sitemap.xml
Static(handler, body) ==
    /\ request' = [handler |-> handler, body |-> <<>>]
    /\ response' = Ok(handler, body)
    /\ dbcalls' = <<>>
    /\ UNCHANGED <<store, nextId, db>>

read_root == Static("read_root", [name |-> "Revelia.life", status |-> "ok"])

robots == Static("robots", [media_type |-> "text/plain", sitemap |-> "/sitemap.xml"])

SitePaths == <<"/", "/pricing", "/analyze", "/about">>

sitemap(frontend_url) ==
    LET base == IF frontend_url = NULL THEN "https://example.com" ELSE frontend_url
    IN Static("sitemap", [media_type |-> "application/xml",
                          urls |-> [i \in 1..Len(SitePaths) |-> base \o SitePaths[i]]])

\* GET /test
CollectionsShown == 10

Take(s, n) == SubSeq(s, 1, IF Len(s) < n THEN Len(s) ELSE n)

SetOrNot(v) == IF v # NULL /\ v # "" THEN "Set" ELSE "Not Set"

\* The body of the inner try: listing raises, or the listing is recorded.
TestInner(r, listed) ==
    IF ~listed THEN [raised |-> TRUE, response |-> r]
    ELSE [raised |-> FALSE,
          response |-> [r EXCEPT !.collections = Take(list_collection_names, CollectionsShown),
                                 !.database = "Connected & Working"]]

\* The inner try with its except clause.
TestInnerTry(r, listed) ==
    LET t == TestInner(r, listed)
    IN IF t.raised
       THEN [raised |-> FALSE, response |-> [t.response EXCEPT !.database = "Connected but Error"]]
       ELSE t

\* The body of the outer try: the import raises, or db is inspected.
TestOuter(r, imported, listed, database_url) ==
    IF ~imported THEN [raised |-> TRUE, response |-> r]
    ELSE IF db # "None"
    THEN TestInnerTry([r EXCEPT !.database = "Available",
                                !.database_url = SetOrNot(database_url),
                                !.database_name = "Connected",
                                !.connection_status = "Connected"], listed)
    ELSE [raised |-> FALSE, response |-> [r EXCEPT !.database = "Available but not initialized"]]

\* the outer try without its except clause
TestOuterTry_NoExcept(r, imported, listed, database_url) == TestOuter(r, imported, listed, database_url)

\* The outer try with its except clause.
TestOuterTry(r, imported, listed, database_url) ==
    LET t == TestOuter(r, imported, listed, database_url)
    IN IF t.raised
       THEN [raised |-> FALSE, response |-> [t.response EXCEPT !.database = "Error"]]
       ELSE t

test_database(imported, listed, database_url, database_name) ==
    LET r0 == [backend |-> "Running", database |-> "Not Available", database_url |-> NULL,
               database_name |-> NULL, connection_status |-> "Not Connected",
               collections |-> <<>>]
        t == TestOuterTry(r0, imported, listed, database_url)
    IN /\ request' = [handler |-> "test_database", body |-> <<>>]
       /\ dbcalls' = <<>>
       /\ UNCHANGED <<store, nextId, db>>
       /\ response' =
            IF t.raised THEN ServerError("test_database")
            ELSE Ok("test_database",
                    [t.response EXCEPT !.database_url = SetOrNot(database_url),
                                       !.database_name = SetOrNot(database_name)])

\* ------------------------------------------------------------ inputs ----
\* "Soñé que caía al agua"
TextSone == <<"S","o","n~","e'"," ","q","u","e"," ","c","a","i'","a"," ","a","l"," ","a","g","u","a">>

\* "I was flying over the ocean"
TextFlying == <<"I"," ","w","a","s"," ","f","l","y","i","n","g"," ","o","v","e","r"," ","t","h","e"," ","o","c","e","a","n">>

\* "A WATERFALL"
TextUpper == <<"A"," ","W","A","T","E","R","F","A","L","L">>

\* "Hola"
TextHola == <<"H","o","l","a">>

SampleTexts == {TextSone, TextFlying, TextUpper, TextHola}

Uploads == {[filename |-> "rec.mp3", content |-> "bytes-1"],
            [filename |-> "rec.mp3", content |-> "bytes-2"],
            [filename |-> NULL, content |-> "bytes-1"]}

DreamRequests ==
    {t @@ l @@ e : t \in Req("text", SampleTexts), l \in Opt("language", {"en"}),
                   e \in Opt("user_email", ValidEmails)}

AudioRequests ==
    {f @@ l @@ e : f \in Req("file", Uploads), l \in Opt("language", {"en"}),
                   e \in Opt("user_email", {"a@x.com"})}

HistoryRequests == Req("email", {"a@x.com", "not-an-email"})

LeadRequests ==
    {m @@ n @@ l @@ s : m \in Opt("email", {"a@x.com", "not-an-email"}), n \in Opt("name", {"Ana"}),
                        l \in Opt("language", {"en", NULL}), s \in Opt("source", {"ad"})}

QuizRequests ==
    {m @@ a @@ c : m \in Opt("user_email", {"a@x.com", "not-an-email"}),
                   a \in Opt("answers", {[q1 |-> "si"], [q1 |-> NULL]}),
                   c \in Opt("score", {"7", "seven"})}

ReportRequests ==
    {m @@ d @@ l : m \in Opt("user_email", {"a@x.com", "not-an-email"}),
                   d \in Opt("dream_id", {"1"}),
                   l \in Opt("language", {"es", "en", "pt", "fr", "", NULL})}

\* The requests of the whole-service specification: one or two of each shape.
CoreDreamRequests ==
    {t @@ l @@ e : t \in Opt("text", {TextSone}), l \in Opt("language", {NULL}),
                   e \in Opt("user_email", {"a@x.com", "not-an-email"})}

CoreAudioRequests ==
    {f @@ e : f \in Opt("file", {[filename |-> "rec.mp3", content |-> "bytes-1"]}),
              e \in Opt("user_email", {"not-an-email"})}

CoreLeadRequests ==
    {m @@ l : m \in Opt("email", {"a@x.com", "not-an-email"}), l \in Opt("language", {"en"})}

CoreReportRequests ==
    {m @@ l : m \in Opt("user_email", {"a@x.com"}), l \in Opt("language", {"en", "fr"})}

\* --------------------------------------------------------- the system ----
Init ==
    /\ store = [c \in Collections |-> <<>>]
    /\ nextId = 1
    /\ db \in {"None", "Handle"}
    /\ request = [handler |-> "none", body |-> <<>>]
    /\ response = [handler |-> "none", status |-> 0, body |-> <<>>]
    /\ dbcalls = <<>>

Room == TotalDocs < MaxDocs

Lead_All == Room /\ \E req \in LeadRequests, written \in BOOLEAN : capture_lead(req, written)

\* The dream endpoints over well-formed requests, every write succeeding when
\* a connection exists.
Dream_All == Room /\ \E req \in DreamRequests : analyze_dream(req, TRUE)

Audio_All == Room /\ \E req \in AudioRequests : analyze_dream_audio(req, TRUE)

Report_All == Room /\ \E req \in ReportRequests, written \in BOOLEAN : send_report(req, written)

History == \E req \in HistoryRequests : dream_history(req)

Lead_Core == Room /\ \E req \in CoreLeadRequests, written \in BOOLEAN : capture_lead(req, written)

Dream_Core == Room /\ \E req \in CoreDreamRequests, written \in BOOLEAN : analyze_dream(req, written)

Audio_Core == Room /\ \E req \in CoreAudioRequests, written \in BOOLEAN : analyze_dream_audio(req, written)

Quiz_Core == Room /\ \E req \in QuizRequests, written \in BOOLEAN : submit_quiz(req, written)

Report_Core == Room /\ \E req \in CoreReportRequests, written \in BOOLEAN : send_report(req, written)

Root == read_root

Robots == robots

Sitemap == \E frontend_url \in {NULL, "https://revelia.life"} : sitemap(frontend_url)

Test ==
    \E imported \in BOOLEAN, listed \in BOOLEAN,
       database_url \in {NULL, "mongodb://h"}, database_name \in {NULL, "revelia"} :
        test_database(imported, listed, database_url, database_name)

\* The whole service.
Next ==
    \/ Lead_Core \/ Dream_Core \/ Quiz_Core \/ History \/ Audio_Core \/ Report_Core
    \/ Root \/ Robots \/ Sitemap \/ Test

Spec == Init /\ [][Next]_vars

\* The dream endpoints.
NextDream == Dream_All \/ Audio_All \/ History

SpecDream == Init /\ [][NextDream]_vars

\* The lead endpoint.
NextLead == Lead_All \/ Root

SpecLead == Init /\ [][NextLead]_vars

\* The report endpoint.
NextReport == Report_All \/ Root

SpecReport == Init /\ [][NextReport]_vars

\* ------------------------------------------------------------ claims ----
SubmitKind ==
    [capture_lead |-> "lead", analyze_dream |-> "dream", submit_quiz |-> "quizanswer",
     analyze_dream_audio |-> "dream", send_report |-> "report"]

Done(handler) == request.handler = handler /\ response.status = 200

Last(kind) == store[kind][Len(store[kind])]

InSeq(x, s) == \E i \in 1..Len(s) : s[i] = x

RecognizedLanguages == {"es", "en", "pt"}

\* C1: a report request with an unrecognized language code succeeds (unless
\* the persistence call itself fails) and the stored Report has the Spanish
\* canned subject and content.
C1_UnknownLanguageSpanish ==
    (/\ request.handler = "send_report"
     /\ ReportIn(request.body)
     /\ Has(request.body, "language")
     /\ request.body.language \notin RecognizedLanguages \cup {NULL}
     /\ ~(response.status = 500 /\ dbcalls # <<>>))
    => /\ response.status = 200
       /\ Last("report").subject = SubjectTable.es
       /\ Last("report").content = ContentTable.es

\* whether the fields of the last request can form a valid entity of its schema
FormsEntity ==
    LET b == request.body
    IN CASE request.handler = "capture_lead" -> LeadIn(b) /\ IsValid(LeadDoc(b))
         [] request.handler = "analyze_dream" -> DreamIn(b) /\ IsValid(DreamDoc(b, <<>>, NULL))
         [] request.handler = "submit_quiz" -> QuizAnswerIn(b)
         [] request.handler = "analyze_dream_audio" -> AudioForm(b) /\ IsValid(AudioDoc(b, NULL))
         [] request.handler = "send_report" -> ReportIn(b) /\ IsValid(ReportDoc(b))

\* C2: in every persisting handler a request that cannot form a valid entity
\* gets a client error and no persistence call, and a server error comes only
\* from a failed persistence call.
C2_InvalidEntityIsClientError ==
    request.handler \in DOMAIN SubmitKind =>
        /\ ~FormsEntity => (response.status = 422 /\ dbcalls = <<>>)
        /\ response.status = 500 => dbcalls = <<CreateCall(SubmitKind[request.handler])>>

\* C3: dream_history(email) returns exactly the stored dreams whose user_email
\* is the given email, each with its identifier converted to a string.
C3_HistoryExact ==
    Done("dream_history") =>
        LET items == response.body.items
            email == request.body.email
            dreams == store["dream"]
            matching == {j \in 1..Len(dreams) : dreams[j].user_email = email}
            Same(item, d) == /\ IsStr(item["_id"])
                             /\ item["_id"].value = d["_id"].value
                             /\ [item EXCEPT !["_id"] = d["_id"]] = d
        IN /\ Len(items) = Cardinality(matching)
           /\ \A i \in 1..Len(items) :
                /\ items[i].user_email = email
                /\ items[i].user_email # NULL
                /\ IsStr(items[i]["_id"])
                /\ \E j \in matching : Same(items[i], dreams[j])
           /\ \A j \in matching : \E i \in 1..Len(items) : Same(items[i], dreams[j])

C3_Witness ==
    /\ Done("dream_history")
    /\ Len(response.body.items) >= 1
    /\ \E j \in 1..Len(store["dream"]) : store["dream"][j].user_email # request.body.email

DiagnosticStatuses ==
    {"Connected & Working", "Connected but Error", "Available but not initialized", "Error"}

\* C4: the diagnostics handler always answers with a status mapping, whatever
\* the import, the connection handle and the collection listing do.
C4_DiagnosticsNeverFails ==
    request.handler = "test_database" =>
        /\ response.status = 200
        /\ response.body.backend = "Running"
        /\ response.body.database \in DiagnosticStatuses
        /\ response.body.database_url \in {"Set", "Not Set"}
        /\ response.body.database_name \in {"Set", "Not Set"}
        /\ Len(response.body.collections) <= CollectionsShown
        /\ (response.body.database = "Connected & Working") =>
              \A c \in Collections : InSeq(c, response.body.collections) <=> store[c] # <<>>

C4_Witness ==
    /\ request.handler = "test_database"
    /\ response.body.database = "Error"
    /\ db = "Handle"
    /\ TotalDocs > 0

SoneInSpanish ==
    /\ Done("analyze_dream")
    /\ request.body.text = TextSone
    /\ Last("dream").language = "es"

\* C5 as stated: the text "Sone que caia al agua" in Spanish is tagged with
\* both "agua" and "caida".
C5_SoneAguaAndCaida ==
    SoneInSpanish => InSeq("agua", Last("dream").tags) /\ InSeq("caida", Last("dream").tags)

\* C5 amended: the text "Sone que caia al agua" in Spanish is tagged with
\* "agua" and not with "caida".
C5_SoneAguaNotCaida ==
    SoneInSpanish => InSeq("agua", Last("dream").tags) /\ ~InSeq("caida", Last("dream").tags)

C5_Witness == SoneInSpanish /\ response.body.analysis.themes # <<>>

\* a keyword of keys occurs in the lowercased text, character by character
KeywordOccurs(text, keys) ==
    \E j \in 1..Len(keys) : \E i \in 0..Len(text) :
        /\ i + Len(keys[j]) <= Len(text)
        /\ \A p \in 1..Len(keys[j]) : LowerChar(text[i + p]) = keys[j][p]

IsTextDream(d) == Has(d.analysis, "recommendations")

\* C6: two text dreams with the same text and language carry the same tags,
\* whatever their user_email and whatever was stored before, and each of agua,
\* caida, volar is a tag exactly when one of its keywords occurs in the
\* lowercased text.
C6_TaggingDeterministic ==
    LET dreams == store["dream"]
    IN /\ \A i, j \in 1..Len(dreams) :
            (/\ IsTextDream(dreams[i]) /\ IsTextDream(dreams[j])
             /\ dreams[i].text = dreams[j].text
             /\ dreams[i].language = dreams[j].language)
            => dreams[i].tags = dreams[j].tags
       /\ \A i \in 1..Len(dreams) :
            IsTextDream(dreams[i]) =>
                /\ InSeq("agua", dreams[i].tags) <=> KeywordOccurs(dreams[i].text, AguaKeys)
                /\ InSeq("caida", dreams[i].tags) <=> KeywordOccurs(dreams[i].text, CaidaKeys)
                /\ InSeq("volar", dreams[i].tags) <=> KeywordOccurs(dreams[i].text, VolarKeys)

C6_Witness ==
    LET dreams == store["dream"]
    IN \E i, j \in 1..Len(dreams) :
        /\ i < j
        /\ IsTextDream(dreams[i]) /\ IsTextDream(dreams[j])
        /\ dreams[i].text = dreams[j].text
        /\ dreams[i].language = dreams[j].language
        /\ dreams[i].user_email # dreams[j].user_email
        /\ Len(dreams[j].tags) = 2

DreamFields == {"user_email", "text", "language", "analysis", "audio_filename", "tags"}

\* C7: a Dream stored by the audio handler has the sentinel text and exactly
\* the tag "audio", and keeps the file's name and nothing else of the upload.
C7_AudioSentinel ==
    Done("analyze_dream_audio") =>
        LET d == Last("dream")
            b == request.body
        IN /\ d.text = AudioSentinel
           /\ d.tags = <<"audio">>
           /\ d.audio_filename = b.file.filename
           /\ DOMAIN d = DreamFields \cup {"_id"}
           /\ d.user_email = Get(b, "user_email", NULL)
           /\ d.language = Get(b, "language", "es")
           /\ d.analysis = AudioInsights

C7_Witness ==
    /\ Done("analyze_dream_audio")
    /\ request.body.file.content = "bytes-2"
    /\ Has(request.body, "language")
    /\ Has(request.body, "user_email")

\* C8: a valid Lead payload whose write succeeds is answered ok with a
\* non-empty identifier, and the lead stored under that identifier has the
\* submitted email, name, language and source, omitted language and source
\* being "es" and "landing".
C8_LeadRoundTrip ==
    (request.handler = "capture_lead" /\ LeadIn(request.body)) =>
        /\ response.status = 200 \/ (response.status = 500 /\ dbcalls = <<CreateCall("lead")>>)
        /\ response.status = 200 =>
            LET b == request.body
                id == response.body.id
                found == {j \in 1..Len(store["lead"]) : store["lead"][j]["_id"].value = id.value}
            IN /\ response.body.ok
               /\ IsStr(id) /\ id.value # ""
               /\ Cardinality(found) = 1
               /\ \A j \in found :
                    /\ store["lead"][j].email = b.email
                    /\ store["lead"][j].name = (IF Has(b, "name") THEN b.name ELSE NULL)
                    /\ store["lead"][j].language = (IF Has(b, "language") THEN b.language ELSE "es")
                    /\ store["lead"][j].source = (IF Has(b, "source") THEN b.source ELSE "landing")

C8_Witness ==
    /\ Done("capture_lead")
    /\ ~Has(request.body, "language")
    /\ ~Has(request.body, "source")
    /\ Has(request.body, "name")
    /\ Len(store["lead"]) = 2

\* C9: a successful submit handler makes one persistence call that appends one
\* document to the collection of its entity kind and changes nothing else;
\* every other request leaves the store as it was.
C9_Step ==
    IF request'.handler \in DOMAIN SubmitKind /\ response'.status = 200
    THEN LET kind == SubmitKind[request'.handler]
         IN /\ dbcalls' = <<CreateCall(kind)>>
            /\ Len(store'[kind]) = Len(store[kind]) + 1
            /\ SubSeq(store'[kind], 1, Len(store[kind])) = store[kind]
            /\ \A c \in Collections \ {kind} : store'[c] = store[c]
    ELSE store' = store

C9_AppendOnly == [][C9_Step]_vars

C9_Witness ==
    /\ Done("send_report")
    /\ Len(store["report"]) = 1
    /\ Len(store["dream"]) = 1

\* C10: every stored Dream has tags equal to the themes of its analysis, and
\* the analysis a dream handler returns is the one it stored.
C10_TagsAreThemes ==
    /\ \A i \in 1..Len(store["dream"]) :
          store["dream"][i].tags = store["dream"][i].analysis.themes
    /\ (Done("analyze_dream") \/ Done("analyze_dream_audio")) =>
          response.body.analysis = Last("dream").analysis

C10_Witness ==
    /\ Done("analyze_dream")
    /\ Len(Last("dream").tags) = 2
    /\ \E i \in 1..Len(store["dream"]) : ~IsTextDream(store["dream"][i])

====
